---- MODULE Spec2Model ----
\* Window lifecycle and focus management core (src/window-manager/core):
\* WindowImpl (window.cpp) and WindowManager::Impl (window_manager.cpp).
EXTENDS Integers, Sequences, FiniteSets, TLC

\* ---------------------------------------------------------------------------
\* Bounds of the model
\* ---------------------------------------------------------------------------
\* createWindow is explored while next_window_id_ is at most MaxId
MaxId == 2
\* longest "windows" array of a persisted layout document
MaxDocLen == 1
\* number of distinct event sinks the host may register
NumSinks == 1
\* operations that draw a timestamp are explored while the static counter of
\* EventUtils::getCurrentTimestamp stays at most MaxTimestamp
MaxTimestamp == 2
\* the same for the operations called on a Window object directly
MaxWindowTimestamp == 3

\* ---------------------------------------------------------------------------
\* Program constants
\* ---------------------------------------------------------------------------
INT_MAX == 2147483647
INT_MIN == (-2147483647) - 1
NoWindow == -1

WS_Normal == 0
WS_Minimized == 1
WS_Maximized == 2
WS_Fullscreen == 3
WS_Hidden == 4

DefaultMinWidth == 100
DefaultMinHeight == 100
DefaultMaxWidth == 4096
DefaultMaxHeight == 4096
ScreenWidth == 1920
ScreenHeight == 1080

\* a call of a public operation as its caller sees it: the operation, the
\* arguments passed and the value returned
Call(op, args, ret) == [op |-> op, args |-> args, ret |-> ret]

\* ---------------------------------------------------------------------------
\* Events (window_event.h)
\* ---------------------------------------------------------------------------
\* WindowEvent(): type Created, window_id -1, timestamp 0, payloads zeroed.
\* Only the payloads the core writes are kept: the generic scalar and the
\* window payload.
ZeroWindowPayload ==
    [x |-> 0, y |-> 0, width |-> 0, height |-> 0,
     old_x |-> 0, old_y |-> 0, old_width |-> 0, old_height |-> 0]

WindowEvent ==
    [type |-> "Created", window_id |-> NoWindow, timestamp |-> 0,
     int_value |-> 0, window |-> ZeroWindowPayload]

\* an event built as the manager builds it: type and window_id assigned, the
\* timestamp left at 0
MkEvent(type, id) == [WindowEvent EXCEPT !.type = type, !.window_id = id]

\* EventUtils::getCurrentTimestamp with the static counter at ts: ++counter
getCurrentTimestamp(ts) == ts + 1

\* an event built as a window builds it, stamped by getCurrentTimestamp
StampedEvent(type, id, ts) ==
    [MkEvent(type, id) EXCEPT !.timestamp = getCurrentTimestamp(ts)]

createWindowMovedEvent(id, x, y, old_x, old_y, ts) ==
    [StampedEvent("Moved", id, ts) EXCEPT
        !.window = [ZeroWindowPayload EXCEPT !.x = x, !.y = y,
                        !.old_x = old_x, !.old_y = old_y]]

createWindowResizedEvent(id, width, height, old_width, old_height, ts) ==
    [StampedEvent("Resized", id, ts) EXCEPT
        !.window = [ZeroWindowPayload EXCEPT !.width = width, !.height = height,
                        !.old_width = old_width, !.old_height = old_height]]

\* ---------------------------------------------------------------------------
\* Window (window.cpp, class WindowImpl)
\* ---------------------------------------------------------------------------
\* A geometry is a function from the names of the fields whose value is
\* determined to these values: a WindowGeometry all of whose fields are
\* determined is the record of its eight fields. A field the function lacks
\* holds a value the program never wrote, the int the window's allocation
\* held for it before: one value per window and field, which can be any int.
GeometryFields ==
    {"x", "y", "width", "height",
     "min_width", "min_height", "max_width", "max_height"}

Determined(g) == DOMAIN g = GeometryFields

\* record rec with the fields of vals assigned
Assign(rec, vals) ==
    [f \in DOMAIN rec \cup DOMAIN vals |->
        IF f \in DOMAIN vals THEN vals[f] ELSE rec[f]]

\* record rec without the fields names: their values are not determined, or
\* they are not assigned
Forget(rec, names) == [f \in DOMAIN rec \ names |-> rec[f]]

\* the truth values g.f < v and g.f > v can take
FieldBelow(g, f, v) ==
    IF f \in DOMAIN g THEN { g[f] < v }
    ELSE { b \in BOOLEAN : b => v > INT_MIN }

FieldAbove(g, f, v) ==
    IF f \in DOMAIN g THEN { g[f] > v }
    ELSE { b \in BOOLEAN : b => v < INT_MAX }

\* normal_geometry_ has no initializer: until maximize()/setFullscreen(true)
\* writes it, it holds the marker Uninit, and a read yields what the
\* allocation held before: zeros, a fill pattern, the snapshot a destroyed
\* window left, the bytes of any other object. Garbage is what such a read
\* can yield: the geometry none of whose fields is determined, which stands
\* for every value of the eight ints.
Uninit == [uninit |-> TRUE]

Indeterminate == [f \in {} |-> 0]

Garbage == { Indeterminate }

ReadNormalGeometry(w) ==
    IF w.normal_geometry = Uninit THEN Garbage ELSE {w.normal_geometry}

\* Result of a Window operation: the window afterwards, the returned value,
\* the events handed to the window's callback (none when no callback has
\* been set on the window) and the timestamps drawn from the counter.
WinResult(w, ret, evs) ==
    [win |-> w, ret |-> ret, ev |-> IF w.hooked THEN evs ELSE <<>>,
     ticks |-> Len(evs)]

\* WindowImpl::WindowImpl; the caller has checked ValidWindowArgs. opacity
\* is kept in hundredths (1.0f is 100).
ValidWindowArgs(title, width, height) ==
    ~(width <= 0 \/ height <= 0) /\ ~(title = "")

NewWindow(title, width, height, type) ==
    [title |-> title,
     geometry |-> [x |-> 0, y |-> 0, width |-> width, height |-> height,
                   min_width |-> DefaultMinWidth, min_height |-> DefaultMinHeight,
                   max_width |-> DefaultMaxWidth, max_height |-> DefaultMaxHeight],
     normal_geometry |-> Uninit,
     state |-> WS_Normal,
     type |-> type,
     visible |-> TRUE,
     has_focus |-> FALSE,
     resizable |-> type \notin {"Dialog", "Tooltip", "Utility"},
     movable |-> type # "Tooltip",
     always_on_top |-> type \in {"Dialog", "Tooltip", "Popup"},
     opacity |-> 100,
     hooked |-> FALSE]

\* Window::setEventCallback
WindowSetEventCallback(w) == [w EXCEPT !.hooked = TRUE]

\* WindowImpl::sendStateChangeEvent
sendStateChangeEvent(id, old_state, ts) ==
    [StampedEvent("StateChanged", id, ts) EXCEPT !.int_value = old_state]

\* WindowImpl::setTitle: the event carries no payload
WindowSetTitle(w, id, title, ts) ==
    IF title = ""
    THEN WinResult(w, FALSE, <<>>)
    ELSE WinResult([w EXCEPT !.title = title], TRUE,
                   << StampedEvent("StateChanged", id, ts) >>)

\* payload with member name holding field f of geometry g, determined or not
Copied(payload, name, g, f) ==
    IF f \in DOMAIN g THEN [payload EXCEPT ![name] = g[f]]
    ELSE Forget(payload, {name})

\* WindowImpl::move: old_x and old_y are read from the geometry
WindowMove(w, id, x, y, ts) ==
    LET g == w.geometry
        event == createWindowMovedEvent(id, x, y, 0, 0, ts)
    IN WinResult([w EXCEPT !.geometry = Assign(g, [x |-> x, y |-> y])], TRUE,
                 << [event EXCEPT !.window =
                         Copied(Copied(@, "old_x", g, "x"), "old_y", g, "y")] >>)

\* WindowImpl::resize; a set of results, one per outcome of the comparisons
\* with the constraints (one outcome when the constraints are determined).
\* old_width and old_height are read from the geometry.
WindowResize(w, id, width, height, ts) ==
    LET g == w.geometry
        event == createWindowResizedEvent(id, width, height, 0, 0, ts)
    IN { IF below_min_width \/ below_min_height
         THEN WinResult(w, FALSE, <<>>)
         ELSE IF above_max_width \/ above_max_height
         THEN WinResult(w, FALSE, <<>>)
         ELSE WinResult([w EXCEPT !.geometry =
                             Assign(g, [width |-> width, height |-> height])],
                        TRUE,
                        << [event EXCEPT !.window =
                                Copied(Copied(@, "old_width", g, "width"),
                                       "old_height", g, "height")] >>)
         : below_min_width \in FieldAbove(g, "min_width", width),
           below_min_height \in FieldAbove(g, "min_height", height),
           above_max_width \in FieldBelow(g, "max_width", width),
           above_max_height \in FieldBelow(g, "max_height", height) }

\* WindowImpl::minimize
WindowMinimize(w, id, ts) ==
    IF w.state = WS_Minimized
    THEN WinResult(w, TRUE, <<>>)
    ELSE WinResult([w EXCEPT !.state = WS_Minimized, !.visible = FALSE], TRUE,
                   << sendStateChangeEvent(id, w.state, ts) >>)

\* the extent written by maximize() and setFullscreen(true)
ScreenExtent(g) ==
    Assign(g, [width |-> ScreenWidth, height |-> ScreenHeight, x |-> 0, y |-> 0])

WindowMaximize_SnapshotAfter(w, id, ts) ==
    IF w.state = WS_Maximized
    THEN WinResult(w, TRUE, <<>>)
    ELSE WinResult([w EXCEPT !.state = WS_Maximized,
                             !.normal_geometry =
                                 IF w.state = WS_Normal
                                 THEN ScreenExtent(w.geometry) ELSE @,
                             !.geometry = ScreenExtent(@)],
                   TRUE, << sendStateChangeEvent(id, w.state, ts) >>)

\* WindowImpl::maximize
WindowMaximize(w, id, ts) ==
    IF w.state = WS_Maximized
    THEN WinResult(w, TRUE, <<>>)
    ELSE WinResult([w EXCEPT !.state = WS_Maximized,
                             !.normal_geometry =
                                 IF w.state = WS_Normal THEN w.geometry ELSE @,
                             !.geometry = ScreenExtent(@)],
                   TRUE, << sendStateChangeEvent(id, w.state, ts) >>)

WindowRestore_AlwaysCopies(w, id, ts) ==
    IF w.state = WS_Normal
    THEN { WinResult(w, TRUE, <<>>) }
    ELSE { WinResult([w EXCEPT !.state = WS_Normal, !.visible = TRUE,
                               !.geometry = g],
                     TRUE, << sendStateChangeEvent(id, w.state, ts) >>)
           : g \in ReadNormalGeometry(w) }

\* WindowImpl::restore; a set of results, one per value normal_geometry_ can
\* be read as.
WindowRestore(w, id, ts) ==
    IF w.state = WS_Normal
    THEN { WinResult(w, TRUE, <<>>) }
    ELSE IF w.state = WS_Maximized \/ w.state = WS_Fullscreen
    THEN { WinResult([w EXCEPT !.state = WS_Normal, !.visible = TRUE,
                               !.geometry = g],
                     TRUE, << sendStateChangeEvent(id, w.state, ts) >>)
           : g \in ReadNormalGeometry(w) }
    ELSE { WinResult([w EXCEPT !.state = WS_Normal, !.visible = TRUE],
                     TRUE, << sendStateChangeEvent(id, w.state, ts) >>) }

\* WindowImpl::setFullscreen
WindowSetFullscreen(w, id, fullscreen, ts) ==
    IF fullscreen /\ w.state = WS_Fullscreen
    THEN { WinResult(w, TRUE, <<>>) }
    ELSE IF ~fullscreen /\ w.state # WS_Fullscreen
    THEN { WinResult(w, TRUE, <<>>) }
    ELSE IF fullscreen
    THEN { WinResult([w EXCEPT !.state = WS_Fullscreen,
                               !.normal_geometry = w.geometry,
                               !.geometry = ScreenExtent(@)],
                     TRUE, << sendStateChangeEvent(id, w.state, ts) >>) }
    ELSE { WinResult([w EXCEPT !.state = WS_Normal, !.geometry = g],
                     TRUE, << sendStateChangeEvent(id, w.state, ts) >>)
           : g \in ReadNormalGeometry(w) }

\* WindowImpl::show: the event carries no old state
WindowShow(w, id, ts) ==
    IF w.visible
    THEN WinResult(w, TRUE, <<>>)
    ELSE WinResult([w EXCEPT !.visible = TRUE], TRUE,
                   << StampedEvent("StateChanged", id, ts) >>)

WindowHide_NoGuard(w, id, ts) ==
    WinResult([w EXCEPT !.visible = FALSE], TRUE,
              << StampedEvent("StateChanged", id, ts) >>)

\* WindowImpl::hide: state_ is not touched
WindowHide(w, id, ts) ==
    IF ~w.visible
    THEN WinResult(w, TRUE, <<>>)
    ELSE WinResult([w EXCEPT !.visible = FALSE], TRUE,
                   << StampedEvent("StateChanged", id, ts) >>)

\* WindowImpl::close: no member is written
WindowClose(w, id, ts) ==
    WinResult(w, TRUE, << StampedEvent("CloseRequest", id, ts) >>)

\* WindowImpl::setResizable, setMovable, setAlwaysOnTop
WindowSetResizable(w, resizable) ==
    WinResult([w EXCEPT !.resizable = resizable], TRUE, <<>>)

WindowSetMovable(w, movable) ==
    WinResult([w EXCEPT !.movable = movable], TRUE, <<>>)

WindowSetAlwaysOnTop(w, always_on_top) ==
    WinResult([w EXCEPT !.always_on_top = always_on_top], TRUE, <<>>)

\* WindowImpl::setOpacity, opacity in hundredths
WindowSetOpacity(w, opacity) ==
    IF opacity < 0 \/ opacity > 100
    THEN WinResult(w, FALSE, <<>>)
    ELSE WinResult([w EXCEPT !.opacity = opacity], TRUE, <<>>)

\* WindowImpl::setFocus: has_focus_ is not written
WindowSetFocus(w, id, ts) ==
    IF w.has_focus
    THEN WinResult(w, TRUE, <<>>)
    ELSE WinResult(w, TRUE, << StampedEvent("FocusGained", id, ts) >>)

\* WindowImpl::setMinimumSize: no event is built; a set of results, one per
\* outcome of the comparisons of width and height with the new minimum (one
\* when both are determined)
WindowSetMinimumSize(w, min_width, min_height) ==
    IF min_width <= 0 \/ min_height <= 0
    THEN { WinResult(w, FALSE, <<>>) }
    ELSE LET g == Assign(w.geometry,
                         [min_width |-> min_width, min_height |-> min_height])
         IN { WinResult([w EXCEPT !.geometry =
                             Assign(g, Forget([width |-> min_width,
                                               height |-> min_height],
                                              (IF width_below THEN {}
                                               ELSE {"width"})
                                              \cup (IF height_below THEN {}
                                                    ELSE {"height"})))],
                        TRUE, <<>>)
              : width_below \in FieldBelow(g, "width", min_width),
                height_below \in FieldBelow(g, "height", min_height) }

\* WindowImpl::setMaximumSize: no event is built; a set of results, as for
\* setMinimumSize
WindowSetMaximumSize(w, max_width, max_height) ==
    IF max_width <= 0 \/ max_height <= 0
    THEN { WinResult(w, FALSE, <<>>) }
    ELSE LET g == Assign(w.geometry,
                         [max_width |-> max_width, max_height |-> max_height])
         IN { WinResult([w EXCEPT !.geometry =
                             Assign(g, Forget([width |-> max_width,
                                               height |-> max_height],
                                              (IF width_above THEN {}
                                               ELSE {"width"})
                                              \cup (IF height_above THEN {}
                                                    ELSE {"height"})))],
                        TRUE, <<>>)
              : width_above \in FieldAbove(g, "width", max_width),
                height_above \in FieldAbove(g, "height", max_height) }

\* WindowImpl::handleEvent: the event is passed on as it came, no timestamp
\* is drawn
WindowHandleEvent(w, event) ==
    [WinResult([w EXCEPT !.has_focus =
                    CASE event.type = "FocusGained" -> TRUE
                      [] event.type = "FocusLost" -> FALSE
                      [] OTHER -> @],
               TRUE, << event >>)
     EXCEPT !.ticks = 0]

\* ---------------------------------------------------------------------------
\* WindowManager (window_manager.cpp, class WindowManager::Impl)
\* ---------------------------------------------------------------------------
VARIABLES
    windows_,            \* identity -> Window
    next_window_id_,
    focused_window_id_,
    event_callback_,     \* 0: empty std::function, otherwise the sink's name
    counter,             \* the static counter of getCurrentTimestamp
    last,                \* the last public call: operation, arguments, result
    delivered,           \* what the sink received during the last call
    ever_held,           \* history: every identity a window of the manager held
    pending,             \* history: windows whose last focus event in the
                         \* delivered stream is FocusGained
    standalone,          \* a Window object the host constructed itself
    trail,               \* history: the geometry of standalone when minimize()
                         \* was last called on it in state Normal, and the calls
                         \* made on it since
    file_,               \* the layout file saveWindowState writes
    origin               \* history: the geometry of standalone when it last
                         \* left state Normal, the call that left Normal, the
                         \* call that came back, whether only move/resize
                         \* were called in between and whether one of them
                         \* changed the geometry

vars == << windows_, next_window_id_, focused_window_id_, event_callback_,
           counter, last, delivered, ever_held, pending, standalone, trail, file_,
           origin >>

\* no Window object outside the manager, no call recorded, no file written
NoObject == [none |-> TRUE]
NoTrail == [g |-> NoObject, ops |-> <<>>]
NoFile == [kind |-> "nofile"]
NoOrigin == [g |-> NoObject, via |-> "", back |-> "", pure |-> TRUE,
             moved |-> FALSE]

Put(wins, id, w) ==
    [i \in (DOMAIN wins) \cup {id} |-> IF i = id THEN w ELSE wins[i]]

Erase(wins, id) == [i \in (DOMAIN wins) \ {id} |-> wins[i]]

NoWindows == [i \in {} |-> 0]

\* Impl::notifyEventCallback: what the sink receives for one event; each
\* delivery records whether the event's window is in the collection then.
notifyEventCallback(cb, wins, event) ==
    IF cb # 0
    THEN << [sink |-> cb, event |-> event,
             live |-> event.window_id \in DOMAIN wins] >>
    ELSE <<>>

\* Impl::handleWindowEvent, applied to the events a window handed to the
\* callback installed by createWindow.
RECURSIVE handleWindowEvent(_, _, _)
handleWindowEvent(cb, wins, evs) ==
    IF evs = <<>> THEN <<>>
    ELSE notifyEventCallback(cb, wins, Head(evs))
           \o handleWindowEvent(cb, wins, Tail(evs))

\* Impl::setFocus as it would be with the two notifications swapped
ImplSetFocus_GainedFirst(wins, focused, cb, window_id) ==
    IF window_id = focused
    THEN [ret |-> TRUE, focused |-> focused, out |-> <<>>]
    ELSE IF window_id \notin DOMAIN wins
    THEN [ret |-> FALSE, focused |-> focused, out |-> <<>>]
    ELSE [ret |-> TRUE, focused |-> window_id,
          out |-> notifyEventCallback(cb, wins, MkEvent("FocusGained", window_id))
                  \o (IF focused # NoWindow /\ focused \in DOMAIN wins
                      THEN notifyEventCallback(cb, wins,
                                               MkEvent("FocusLost", focused))
                      ELSE <<>>)]

\* Impl::setFocus
ImplSetFocus(wins, focused, cb, window_id) ==
    IF window_id = focused
    THEN [ret |-> TRUE, focused |-> focused, out |-> <<>>]
    ELSE IF window_id \notin DOMAIN wins
    THEN [ret |-> FALSE, focused |-> focused, out |-> <<>>]
    ELSE [ret |-> TRUE, focused |-> window_id,
          out |-> (IF focused # NoWindow /\ focused \in DOMAIN wins
                   THEN notifyEventCallback(cb, wins, MkEvent("FocusLost", focused))
                   ELSE <<>>)
                  \o notifyEventCallback(cb, wins, MkEvent("FocusGained", window_id))]

\* Impl::setFocusToNextWindow: windows_.begin() of an unordered_map is any
\* of the remaining windows, so the result is a set.
setFocusToNextWindow(wins, cb) ==
    IF DOMAIN wins = {}
    THEN { [focused |-> NoWindow, out |-> <<>>] }
    ELSE { [focused |-> first,
            out |-> notifyEventCallback(cb, wins, MkEvent("FocusGained", first))]
           : first \in DOMAIN wins }

\* Impl::createWindow as it would be with the identity taken before the
\* arguments are validated
ImplCreateWindow_CountsFirst(wins, next, focused, cb, title, width, height, type) ==
    IF width <= 0 \/ height <= 0 \/ title = ""
    THEN [ret |-> NoWindow, windows |-> wins, next |-> next + 1,
          focused |-> focused, out |-> <<>>]
    ELSE LET window_id == next
             window == WindowSetEventCallback(NewWindow(title, width, height, type))
             wins1 == Put(wins, window_id, window)
             f == ImplSetFocus(wins1, focused, cb, window_id)
         IN [ret |-> window_id, windows |-> wins1, next |-> next + 1,
             focused |-> f.focused,
             out |-> f.out \o notifyEventCallback(cb, wins1,
                                                  MkEvent("Created", window_id))]

\* Impl::createWindow
ImplCreateWindow(wins, next, focused, cb, title, width, height, type) ==
    IF width <= 0 \/ height <= 0 \/ title = ""
    THEN [ret |-> NoWindow, windows |-> wins, next |-> next,
          focused |-> focused, out |-> <<>>]
    ELSE LET window_id == next
             window == WindowSetEventCallback(NewWindow(title, width, height, type))
             wins1 == Put(wins, window_id, window)
             f == ImplSetFocus(wins1, focused, cb, window_id)
         IN [ret |-> window_id, windows |-> wins1, next |-> next + 1,
             focused |-> f.focused,
             out |-> f.out \o notifyEventCallback(cb, wins1,
                                                  MkEvent("Created", window_id))]

\* Impl::closeWindow as it would be with the fallback chosen before the
\* window is erased
ImplCloseWindow_FallbackBeforeErase(wins, focused, cb, window_id) ==
    IF window_id \notin DOMAIN wins
    THEN { [ret |-> FALSE, windows |-> wins, focused |-> focused, out |-> <<>>] }
    ELSE LET wins1 == Erase(wins, window_id)
             fs == IF focused = window_id
                   THEN setFocusToNextWindow(wins, cb)
                   ELSE { [focused |-> focused, out |-> <<>>] }
         IN { [ret |-> TRUE, windows |-> wins1, focused |-> f.focused,
               out |-> notifyEventCallback(cb, wins, MkEvent("Closing", window_id))
                       \o f.out
                       \o notifyEventCallback(cb, wins1,
                                              MkEvent("Destroyed", window_id))]
              : f \in fs }

\* Impl::closeWindow as it would be with Destroyed sent before the focus is
\* reassigned
ImplCloseWindow_DestroyedEarly(wins, focused, cb, window_id) ==
    IF window_id \notin DOMAIN wins
    THEN { [ret |-> FALSE, windows |-> wins, focused |-> focused, out |-> <<>>] }
    ELSE LET wins1 == Erase(wins, window_id)
             fs == IF focused = window_id
                   THEN setFocusToNextWindow(wins1, cb)
                   ELSE { [focused |-> focused, out |-> <<>>] }
         IN { [ret |-> TRUE, windows |-> wins1, focused |-> f.focused,
               out |-> notifyEventCallback(cb, wins, MkEvent("Closing", window_id))
                       \o notifyEventCallback(cb, wins1,
                                              MkEvent("Destroyed", window_id))
                       \o f.out]
              : f \in fs }

\* Impl::closeWindow
ImplCloseWindow(wins, focused, cb, window_id) ==
    IF window_id \notin DOMAIN wins
    THEN { [ret |-> FALSE, windows |-> wins, focused |-> focused, out |-> <<>>] }
    ELSE LET wins1 == Erase(wins, window_id)
             fs == IF focused = window_id
                   THEN setFocusToNextWindow(wins1, cb)
                   ELSE { [focused |-> focused, out |-> <<>>] }
         IN { [ret |-> TRUE, windows |-> wins1, focused |-> f.focused,
               out |-> notifyEventCallback(cb, wins, MkEvent("Closing", window_id))
                       \o f.out
                       \o notifyEventCallback(cb, wins1,
                                              MkEvent("Destroyed", window_id))]
              : f \in fs }

\* the forwarding as it would be if it reported success whatever the Window
\* operation returned
Forward_AlwaysTrue(wins, cb, ts, window_id, results) ==
    { [ret |-> TRUE, windows |-> Put(wins, window_id, r.win),
       counter |-> ts + r.ticks,
       out |-> handleWindowEvent(cb, wins, r.ev)] : r \in results }

\* Impl::minimizeWindow .. Impl::resizeWindow and Impl::handleEvent after the
\* lookup succeeded: forward to the window, pass its events to the sink,
\* return the Window operation's result. results: what the Window operation
\* can do.
Forward(wins, cb, ts, window_id, results) ==
    { [ret |-> r.ret, windows |-> Put(wins, window_id, r.win),
       counter |-> ts + r.ticks,
       out |-> handleWindowEvent(cb, wins, r.ev)] : r \in results }

\* the lookup failed
Unknown(wins, ts) ==
    { [ret |-> FALSE, windows |-> wins, counter |-> ts, out |-> <<>>] }

ImplMinimizeWindow(wins, cb, ts, window_id) ==
    IF window_id \notin DOMAIN wins THEN Unknown(wins, ts)
    ELSE Forward(wins, cb, ts, window_id,
                 { WindowMinimize(wins[window_id], window_id, ts) })

ImplMaximizeWindow(wins, cb, ts, window_id) ==
    IF window_id \notin DOMAIN wins THEN Unknown(wins, ts)
    ELSE Forward(wins, cb, ts, window_id,
                 { WindowMaximize(wins[window_id], window_id, ts) })

ImplRestoreWindow(wins, cb, ts, window_id) ==
    IF window_id \notin DOMAIN wins THEN Unknown(wins, ts)
    ELSE Forward(wins, cb, ts, window_id,
                 WindowRestore(wins[window_id], window_id, ts))

ImplMoveWindow(wins, cb, ts, window_id, x, y) ==
    IF window_id \notin DOMAIN wins THEN Unknown(wins, ts)
    ELSE Forward(wins, cb, ts, window_id,
                 { WindowMove(wins[window_id], window_id, x, y, ts) })

ImplResizeWindow(wins, cb, ts, window_id, width, height) ==
    IF window_id \notin DOMAIN wins THEN Unknown(wins, ts)
    ELSE Forward(wins, cb, ts, window_id,
                 WindowResize(wins[window_id], window_id, width, height, ts))

\* Impl::handleEvent
ImplHandleEvent(wins, cb, ts, event) ==
    IF event.window_id \in DOMAIN wins
    THEN Forward(wins, cb, ts, event.window_id,
                 { WindowHandleEvent(wins[event.window_id], event) })
    ELSE { [ret |-> TRUE, windows |-> wins, counter |-> ts, out |-> <<>>] }

\* ---------------------------------------------------------------------------
\* Persisted layout document (jsoncpp values read by restoreWindowState)
\* ---------------------------------------------------------------------------
\* A JSON object is a function from the member names it has to their values.
\* Json::Value::operator[] on an absent member gives null, and asInt() /
\* asString() of null give 0 / "".
AsInt(obj, key) == IF key \in DOMAIN obj THEN obj[key] ELSE 0

AsString(obj, key) == IF key \in DOMAIN obj THEN obj[key] ELSE ""

\* A member of a saved record that was written from a geometry field whose
\* value is not determined is absent from the function and named in the
\* record's "indeterminate" set; the documents of a host have no such set.
Lost(obj) == IF "indeterminate" \in DOMAIN obj THEN obj.indeterminate ELSE {}

\* iterating a null "windows" member visits nothing
AsArray(obj, key) == IF key \in DOMAIN obj THEN obj[key] ELSE <<>>

Max(a, b) == IF a < b THEN b ELSE a

\* next_window_id_ = std::max(next_window_id_, id + 1): id + 1 overflows a
\* signed int for id = INT_MAX; a build either wraps before comparing (the
\* counter keeps its value) or folds the comparison to next <= id and stores
\* the wrapped sum.
NextAfterRestore(next, id) ==
    IF id = INT_MAX THEN {next, INT_MIN} ELSE {Max(next, id + 1)}

RestoredWindow_KeepsSavedState(id, title, x, y, width, height, lost, state, ts) ==
    LET w0 == NewWindow(title, width, height, "Normal")
        m == WindowMove(w0, id, x, y, ts)
        w1 == [m.win EXCEPT !.geometry = Forget(@, lost)]
    IN [win |-> [w1 EXCEPT !.state = state], counter |-> ts + m.ticks]

\* lines 279-295: the Window built for one record (no callback is set on
\* it), with the timestamps its move() and state transition drew. lost: the
\* members among x, y, width and height whose value in the record is not
\* determined (the argument passed for such a member is not used).
RestoredWindow(id, title, x, y, width, height, lost, state, ts) ==
    LET w0 == NewWindow(title, width, height, "Normal")
        m == WindowMove(w0, id, x, y, ts)
        w1 == [m.win EXCEPT !.geometry = Forget(@, lost)]
        ts1 == ts + m.ticks
        t == CASE state = WS_Minimized -> WindowMinimize(w1, id, ts1)
               [] state = WS_Maximized -> WindowMaximize(w1, id, ts1)
               [] state = WS_Fullscreen ->
                      (CHOOSE r \in WindowSetFullscreen(w1, id, TRUE, ts1) : TRUE)
               [] OTHER -> [win |-> w1, ticks |-> 0]
    IN [win |-> t.win, counter |-> ts1 + t.ticks]

\* the loop of restoreWindowState over the remaining records; ok = FALSE when
\* the Window constructor threw
RECURSIVE RestoreLoop(_, _, _, _)
RestoreLoop(recs, wins, next, ts) ==
    IF recs = <<>>
    THEN { [ok |-> TRUE, windows |-> wins, next |-> next, counter |-> ts] }
    ELSE LET window_obj == Head(recs)
             id == AsInt(window_obj, "id")
             title == AsString(window_obj, "title")
             x == AsInt(window_obj, "x")
             y == AsInt(window_obj, "y")
             width == AsInt(window_obj, "width")
             height == AsInt(window_obj, "height")
             state == AsInt(window_obj, "state")
             lost == Lost(window_obj)
             rw == RestoredWindow(id, title, x, y, width, height, lost, state, ts)
             size == Forget([width |-> width, height |-> height], lost)
         IN UNION { IF nonpositive_width \/ nonpositive_height \/ title = ""
                    THEN { [ok |-> FALSE, windows |-> wins, next |-> next,
                            counter |-> ts] }
                    ELSE UNION { RestoreLoop(Tail(recs), Put(wins, id, rw.win),
                                             n, rw.counter)
                                 : n \in NextAfterRestore(next, id) }
                    : nonpositive_width \in FieldBelow(size, "width", 1),
                      nonpositive_height \in FieldBelow(size, "height", 1) }

\* Impl::restoreWindowState. file.kind: "nofile" (cannot be opened),
\* "malformed" (the parser throws), "notobject" (root["windows"] throws),
\* "object" (file.root is the root object).
ImplRestoreWindowState(wins, next, focused, ts, file) ==
    CASE file.kind = "nofile" ->
            { [ret |-> FALSE, windows |-> wins, next |-> next,
               focused |-> focused, counter |-> ts] }
      [] file.kind = "malformed" ->
            { [ret |-> FALSE, windows |-> wins, next |-> next,
               focused |-> focused, counter |-> ts] }
      [] file.kind = "notobject" ->
            { [ret |-> FALSE, windows |-> NoWindows, next |-> next,
               focused |-> focused, counter |-> ts] }
      [] OTHER ->
            { [ret |-> l.ok, windows |-> l.windows, next |-> l.next,
               focused |-> IF l.ok THEN AsInt(file.root, "focused_window")
                           ELSE focused,
               counter |-> l.counter]
              : l \in RestoreLoop(AsArray(file.root, "windows"), NoWindows,
                                  next, ts) }

\* the orders in which the elements of S can be visited
Orderings(S) ==
    { q \in [1..Cardinality(S) -> S] : \A i, j \in DOMAIN q : q[i] = q[j] => i = j }

\* lines 220-230: the record saveWindowState writes for window w held as id
SavedRecord(id, w) ==
    LET saved == {"x", "y", "width", "height"}
        lost == saved \ DOMAIN w.geometry
        members == Assign([id |-> id, title |-> w.title, state |-> w.state],
                          Forget(w.geometry, GeometryFields \ saved))
    IN IF lost = {} THEN members
       ELSE Assign(members, [indeterminate |-> lost])

\* lines 215-236: the root object, its "windows" in the order the
\* unordered_map is iterated in, which is any order
SavedDocuments(wins, focused) ==
    { [windows |-> [i \in DOMAIN q |-> SavedRecord(q[i], wins[q[i]])],
       focused_window |-> focused] : q \in Orderings(DOMAIN wins) }

\* Impl::saveWindowState. writable: the file can be opened for writing;
\* file: what the file held before
ImplSaveWindowState(wins, focused, file, writable) ==
    IF ~writable
    THEN { [ret |-> FALSE, file |-> file] }
    ELSE { [ret |-> TRUE, file |-> [kind |-> "object", root |-> doc]]
           : doc \in SavedDocuments(wins, focused) }

\* ---------------------------------------------------------------------------
\* Inputs of the public operations
\* ---------------------------------------------------------------------------
CreateInputs ==
    { <<"A", 800, 600>>, <<"", 800, 600>>, <<"A", 0, 600>>, <<"A", 800, -5>> }
Types == {"Normal"}
MoveInputs == { <<10, 20>> }
ResizeInputs == { <<50, 50>>, <<1024, 768>> }
EventTypes == {"FocusGained", "FocusLost", "KeyPress"}
Sinks == 0..NumSinks

\* a Window the host constructs itself: its identity and the sizes it is
\* constructed with (the second is below the default minimum), and the
\* arguments of its resize, setMinimumSize and setMaximumSize
StandaloneId == 7
TitleInputs == { "", "B" }
\* -0.1f, 0.5f, 1.5f
OpacityInputs == { -10, 50, 150 }
ConstructInputs == { <<"A", 800, 600>>, <<"A", 50, 600>>, <<"A", 0, 600>> }
WindowResizeInputs == { <<50, 50>>, <<1024, 768>>, <<-1, 5000>> }
MinimumSizeInputs == { <<0, 10>>, <<5000, 200>> }
MaximumSizeInputs == { <<10, -3>>, <<640, 480>> }

\* the file names saveWindowState is given: the layout file, and a name in a
\* directory that does not exist
LayoutPath == "layout.json"
Paths == { LayoutPath, "/nonexistent/layout.json" }

DocFocus == {NoWindow, 2, 3}

DocRecord(id, state) ==
    [id |-> id, title |-> "A", x |-> 10, y |-> 20,
     width |-> 800, height |-> 600, state |-> state]

\* a Normal and a Maximized record, and a record without "title"
DocRecords ==
    { DocRecord(2, WS_Normal), DocRecord(INT_MAX, WS_Maximized),
      [id |-> 2, x |-> 10, y |-> 20, width |-> 800, height |-> 600,
       state |-> WS_Normal] }

RECURSIVE SeqsUpTo(_, _)
SeqsUpTo(S, n) ==
    IF n = 0 THEN { <<>> }
    ELSE LET shorter == SeqsUpTo(S, n - 1)
         IN shorter \cup { Append(q, e) : q \in shorter, e \in S }

\* the files restoreWindowState is given; the last group lacks
\* "focused_window"
Files ==
    { [kind |-> "nofile"], [kind |-> "malformed"], [kind |-> "notobject"] }
    \cup { [kind |-> "object", root |-> [windows |-> ws, focused_window |-> f]]
           : ws \in SeqsUpTo(DocRecords, MaxDocLen), f \in DocFocus }
    \cup { [kind |-> "object", root |-> [windows |-> ws]]
           : ws \in SeqsUpTo(DocRecords, 1) }

\* identities the caller may name: the live ones, the focused one, the
\* sentinel and 0, which createWindow never assigns
IdInputs == {NoWindow, 0, focused_window_id_} \cup DOMAIN windows_

\* documents whose record carries the state Hidden (4) or Fullscreen (3)
StateFiles ==
    { [kind |-> "object",
       root |-> [windows |-> << DocRecord(2, st) >>, focused_window |-> 2]]
      : st \in {WS_Hidden, WS_Fullscreen} }

\* createWindow is explored while the identity counter is within the bound
CreateCapAt(cap) == next_window_id_ <= cap
                    /\ (next_window_id_ >= 1 \/ next_window_id_ = INT_MIN)

CreateCap == CreateCapAt(MaxId)

\* ---------------------------------------------------------------------------
\* What an observer of the calls and of the sink has seen
\* ---------------------------------------------------------------------------
\* the windows left with a FocusGained not followed by their FocusLost after
\* the deliveries ds are added to a stream that had left p
RECURSIVE TrackFocus(_, _)
TrackFocus(p, ds) ==
    IF ds = <<>> THEN p
    ELSE LET e == Head(ds).event
         IN TrackFocus(CASE e.type = "FocusGained" -> p \cup {e.window_id}
                         [] e.type = "FocusLost" -> p \ {e.window_id}
                         [] OTHER -> p,
                       Tail(ds))

\* the histories move with the call
Observe ==
    /\ ever_held' = ever_held \cup DOMAIN windows_'
    /\ pending' = TrackFocus(pending, delivered')
    /\ UNCHANGED << standalone, trail, file_, origin >>

\* the histories are not kept
Unobserved == UNCHANGED << ever_held, pending, standalone, trail, file_, origin >>

\* ---------------------------------------------------------------------------
\* The state machine
\* ---------------------------------------------------------------------------
Init ==
    /\ windows_ = NoWindows
    /\ next_window_id_ = 1
    /\ focused_window_id_ = NoWindow
    /\ event_callback_ = 0
    /\ counter = 0
    /\ last = [op |-> "init", args |-> <<>>, ret |-> TRUE]
    /\ delivered = <<>>
    /\ ever_held = {}
    /\ pending = {}
    /\ standalone = NoObject
    /\ trail = NoTrail
    /\ file_ = NoFile
    /\ origin = NoOrigin

\* createWindow, explored while the identity counter is at most cap
CreateWindowWithin(cap) ==
    \E in \in CreateInputs, type \in Types :
        LET r == ImplCreateWindow(windows_, next_window_id_, focused_window_id_,
                                  event_callback_, in[1], in[2], in[3], type)
        IN /\ r.ret # NoWindow => CreateCapAt(cap)
           /\ windows_' = r.windows
           /\ next_window_id_' = r.next
           /\ focused_window_id_' = r.focused
           /\ delivered' = r.out
           /\ last' = [op |-> "createWindow",
                       args |-> <<in[1], in[2], in[3], type>>, ret |-> r.ret]
           /\ UNCHANGED << event_callback_, counter >>

CreateWindowCall == CreateWindowWithin(MaxId)

CloseWindowCall ==
    \E id \in IdInputs :
        \E r \in ImplCloseWindow(windows_, focused_window_id_, event_callback_, id) :
           /\ windows_' = r.windows
           /\ focused_window_id_' = r.focused
           /\ delivered' = r.out
           /\ last' = [op |-> "closeWindow", args |-> <<id>>, ret |-> r.ret]
           /\ UNCHANGED << next_window_id_, event_callback_, counter >>

SetFocusCall ==
    \E id \in IdInputs :
        LET r == ImplSetFocus(windows_, focused_window_id_, event_callback_, id)
        IN /\ focused_window_id_' = r.focused
           /\ delivered' = r.out
           /\ last' = [op |-> "setFocus", args |-> <<id>>, ret |-> r.ret]
           /\ UNCHANGED << windows_, next_window_id_, event_callback_, counter >>

\* the part common to the forwarding operations and handleEvent
Forwarded(op, args, results) ==
    \E r \in results :
       /\ r.counter <= MaxTimestamp
       /\ windows_' = r.windows
       /\ counter' = r.counter
       /\ delivered' = r.out
       /\ last' = [op |-> op, args |-> args, ret |-> r.ret]
       /\ UNCHANGED << next_window_id_, focused_window_id_, event_callback_ >>

MinimizeWindowCall ==
    \E id \in IdInputs :
        Forwarded("minimizeWindow", <<id>>,
                  ImplMinimizeWindow(windows_, event_callback_, counter, id))

MaximizeWindowCall ==
    \E id \in IdInputs :
        Forwarded("maximizeWindow", <<id>>,
                  ImplMaximizeWindow(windows_, event_callback_, counter, id))

RestoreWindowCall ==
    \E id \in IdInputs :
        Forwarded("restoreWindow", <<id>>,
                  ImplRestoreWindow(windows_, event_callback_, counter, id))

MoveWindowCall ==
    \E id \in IdInputs, xy \in MoveInputs :
        Forwarded("moveWindow", <<id, xy[1], xy[2]>>,
                  ImplMoveWindow(windows_, event_callback_, counter, id,
                                 xy[1], xy[2]))

ResizeWindowCall ==
    \E id \in IdInputs, wh \in ResizeInputs :
        Forwarded("resizeWindow", <<id, wh[1], wh[2]>>,
                  ImplResizeWindow(windows_, event_callback_, counter, id,
                                   wh[1], wh[2]))

HandleEventCall ==
    \E type \in EventTypes, id \in IdInputs :
        Forwarded("handleEvent", <<type, id>>,
                  ImplHandleEvent(windows_, event_callback_, counter,
                                  MkEvent(type, id)))

\* Impl::setEventCallback
SetEventCallbackCall ==
    \E cb \in Sinks :
        /\ event_callback_' = cb
        /\ delivered' = <<>>
        /\ last' = [op |-> "setEventCallback", args |-> <<cb>>, ret |-> TRUE]
        /\ UNCHANGED << windows_, next_window_id_, focused_window_id_, counter >>

\* restoreWindowState given one of files
RestoreWindowStateOf(files) ==
    \E file \in files :
        \E r \in ImplRestoreWindowState(windows_, next_window_id_,
                                        focused_window_id_, counter, file) :
           /\ r.counter <= MaxTimestamp
           /\ windows_' = r.windows
           /\ next_window_id_' = r.next
           /\ focused_window_id_' = r.focused
           /\ counter' = r.counter
           /\ delivered' = <<>>
           /\ last' = [op |-> "restoreWindowState", args |-> <<file>>,
                       ret |-> r.ret]
           /\ UNCHANGED event_callback_

RestoreWindowStateCall == RestoreWindowStateOf(Files)

\* The manager under all its operations.
CreateWindow == CreateWindowCall /\ Unobserved
CloseWindow == CloseWindowCall /\ Unobserved
SetFocus == SetFocusCall /\ Unobserved
MinimizeWindow == MinimizeWindowCall /\ Unobserved
MaximizeWindow == MaximizeWindowCall /\ Unobserved
RestoreWindow == RestoreWindowCall /\ Unobserved
MoveWindow == MoveWindowCall /\ Unobserved
ResizeWindow == ResizeWindowCall /\ Unobserved
HandleEvent == HandleEventCall /\ Unobserved
SetEventCallback == SetEventCallbackCall /\ Unobserved
RestoreWindowState == RestoreWindowStateCall /\ Unobserved

Next ==
    \/ CreateWindow
    \/ CloseWindow
    \/ SetFocus
    \/ MinimizeWindow
    \/ MaximizeWindow
    \/ RestoreWindow
    \/ MoveWindow
    \/ ResizeWindow
    \/ HandleEvent
    \/ SetEventCallback
    \/ RestoreWindowState

Spec == Init /\ [][Next]_vars

\* The manager under the operations that assign identities and focus, with
\* the histories kept.
CreateWindowObserved == CreateWindowCall /\ Observe
CloseWindowObserved == CloseWindowCall /\ Observe
SetFocusObserved == SetFocusCall /\ Observe
SetEventCallbackObserved == SetEventCallbackCall /\ Observe
RestoreWindowStateObserved == RestoreWindowStateCall /\ Observe

NextFocus ==
    \/ CreateWindowObserved
    \/ CloseWindowObserved
    \/ SetFocusObserved
    \/ SetEventCallbackObserved
    \/ RestoreWindowStateObserved

SpecFocus == Init /\ [][NextFocus]_vars

\* The manager under createWindow, closeWindow, setFocus and
\* setEventCallback, with room for one more window than Spec has, so that a
\* closed window can leave two behind.
CreateWindowSpare == CreateWindowWithin(MaxId + 1) /\ Unobserved

NextFallback ==
    \/ CreateWindowSpare
    \/ CloseWindow
    \/ SetFocus
    \/ SetEventCallback

SpecFallback == Init /\ [][NextFallback]_vars

\* The manager under the operations that shape what saveWindowState
\* writes, with the layout file written by saveWindowState and read back by
\* restoreWindowState.
SaveWindowStateCall ==
    \E path \in Paths :
        \E r \in ImplSaveWindowState(windows_, focused_window_id_, file_,
                                     path = LayoutPath) :
           /\ file_' = r.file
           /\ delivered' = <<>>
           /\ last' = Call("saveWindowState", << path >>, r.ret)
           /\ UNCHANGED << windows_, next_window_id_, focused_window_id_,
                           event_callback_, counter >>

\* restoreWindowState of the layout file, explored while the timestamp
\* counter is within its bound when the call is made
RestoreSavedCall ==
    /\ counter <= MaxTimestamp
    /\ \E r \in ImplRestoreWindowState(windows_, next_window_id_,
                                        focused_window_id_, counter, file_) :
           /\ windows_' = r.windows
           /\ next_window_id_' = r.next
           /\ focused_window_id_' = r.focused
           /\ counter' = r.counter
           /\ delivered' = <<>>
           /\ last' = Call("restoreWindowState", << file_ >>, r.ret)
           /\ UNCHANGED << event_callback_, file_ >>

SaveWindowState ==
    SaveWindowStateCall /\ UNCHANGED << ever_held, pending, standalone, trail, origin >>
RestoreSaved ==
    RestoreSavedCall /\ UNCHANGED << ever_held, pending, standalone, trail, origin >>

NextPersist ==
    \/ CreateWindow
    \/ SetFocus
    \/ MinimizeWindow
    \/ MaximizeWindow
    \/ RestoreWindow
    \/ MoveWindow
    \/ ResizeWindow
    \/ SaveWindowState
    \/ RestoreSaved

SpecPersist == Init /\ [][NextPersist]_vars

\* A Window object the host constructs and drives itself, outside any
\* manager. The events it hands to its callback are recorded in delivered.
Emitted(evs) ==
    [i \in 1..Len(evs) |-> [sink |-> 1, event |-> evs[i], live |-> TRUE]]

\* the trail after a call of op on the standalone window
NextTrail(op) ==
    IF op = "minimize" /\ standalone.state = WS_Normal
    THEN [g |-> standalone.geometry, ops |-> << op >>]
    ELSE IF trail.ops # <<>> /\ Len(trail.ops) < 3
    THEN [trail EXCEPT !.ops = Append(@, op)]
    ELSE NoTrail

\* the origin after a call of op took the standalone window from w to w2
NextOrigin(op, w, w2) ==
    IF w.state = WS_Normal /\ w2.state # WS_Normal
    THEN [g |-> w.geometry, via |-> op, back |-> "", pure |-> TRUE,
          moved |-> FALSE]
    ELSE IF origin = NoOrigin
    THEN NoOrigin
    ELSE IF w.state # WS_Normal /\ w2.state = WS_Normal
    THEN [origin EXCEPT !.back = op]
    ELSE IF w.state # WS_Normal
    THEN [origin EXCEPT !.pure =
              @ /\ op \in {"move", "resize", "close", "Window::setEventCallback"},
                        !.moved = @ \/ w2.geometry # w.geometry]
    ELSE IF op \in {"move", "resize", "setMinimumSize", "setMaximumSize"}
    THEN NoOrigin
    ELSE origin

\* Window::Window: an exception leaves the host without an object
ConstructCall ==
    /\ standalone = NoObject
    /\ \E in \in ConstructInputs :
          /\ standalone' = IF ValidWindowArgs(in[1], in[2], in[3])
                           THEN NewWindow(in[1], in[2], in[3], "Normal")
                           ELSE NoObject
          /\ last' = Call("Window", << StandaloneId, in[1], in[2], in[3] >>,
                          ValidWindowArgs(in[1], in[2], in[3]))
    /\ delivered' = <<>>
    /\ UNCHANGED << windows_, next_window_id_, focused_window_id_,
                    event_callback_, counter, ever_held, pending, trail, file_,
                    origin >>

\* the part common to the operations called on the standalone window
Applied(op, args, results) ==
    \E r \in results :
       /\ counter + r.ticks <= MaxWindowTimestamp
       /\ standalone' = r.win
       /\ counter' = counter + r.ticks
       /\ delivered' = Emitted(r.ev)
       /\ last' = Call(op, args, r.ret)
       /\ trail' = NextTrail(op)
       /\ origin' = NextOrigin(op, standalone, r.win)
       /\ UNCHANGED << windows_, next_window_id_, focused_window_id_,
                       event_callback_, ever_held, pending, file_ >>

HookCall ==
    /\ standalone # NoObject
    /\ Applied("Window::setEventCallback", <<>>,
               { [WinResult(WindowSetEventCallback(standalone), TRUE, <<>>)
                  EXCEPT !.ev = <<>>] })

MoveCall ==
    /\ standalone # NoObject
    /\ \E xy \in MoveInputs :
          Applied("move", xy,
                  { WindowMove(standalone, StandaloneId, xy[1], xy[2], counter) })

ResizeCall ==
    /\ standalone # NoObject
    /\ \E wh \in WindowResizeInputs :
          Applied("resize", wh,
                  WindowResize(standalone, StandaloneId, wh[1], wh[2], counter))

MinimizeCall ==
    /\ standalone # NoObject
    /\ Applied("minimize", <<>>,
               { WindowMinimize(standalone, StandaloneId, counter) })

MaximizeCall ==
    /\ standalone # NoObject
    /\ Applied("maximize", <<>>,
               { WindowMaximize(standalone, StandaloneId, counter) })

RestoreCall ==
    /\ standalone # NoObject
    /\ Applied("restore", <<>>,
               WindowRestore(standalone, StandaloneId, counter))

SetFullscreenCall ==
    /\ standalone # NoObject
    /\ \E fullscreen \in BOOLEAN :
          Applied("setFullscreen", << fullscreen >>,
                  WindowSetFullscreen(standalone, StandaloneId, fullscreen,
                                      counter))

SetMinimumSizeCall ==
    /\ standalone # NoObject
    /\ \E wh \in MinimumSizeInputs :
          Applied("setMinimumSize", wh,
                  WindowSetMinimumSize(standalone, wh[1], wh[2]))

SetMaximumSizeCall ==
    /\ standalone # NoObject
    /\ \E wh \in MaximumSizeInputs :
          Applied("setMaximumSize", wh,
                  WindowSetMaximumSize(standalone, wh[1], wh[2]))

ShowCall ==
    /\ standalone # NoObject
    /\ Applied("show", <<>>, { WindowShow(standalone, StandaloneId, counter) })

HideCall ==
    /\ standalone # NoObject
    /\ Applied("hide", <<>>, { WindowHide(standalone, StandaloneId, counter) })

CloseCall ==
    /\ standalone # NoObject
    /\ Applied("close", <<>>, { WindowClose(standalone, StandaloneId, counter) })

SetTitleCall ==
    /\ standalone # NoObject
    /\ \E title \in TitleInputs :
          Applied("setTitle", << title >>,
                  { WindowSetTitle(standalone, StandaloneId, title, counter) })

WindowSetFocusCall ==
    /\ standalone # NoObject
    /\ Applied("Window::setFocus", <<>>,
               { WindowSetFocus(standalone, StandaloneId, counter) })

\* Window::handleEvent: void, recorded as returning TRUE
WindowHandleEventCall ==
    /\ standalone # NoObject
    /\ \E type \in EventTypes :
          Applied("Window::handleEvent", << type, StandaloneId >>,
                  { WindowHandleEvent(standalone, MkEvent(type, StandaloneId)) })

SetResizableCall ==
    /\ standalone # NoObject
    /\ \E resizable \in BOOLEAN :
          Applied("setResizable", << resizable >>,
                  { WindowSetResizable(standalone, resizable) })

SetMovableCall ==
    /\ standalone # NoObject
    /\ \E movable \in BOOLEAN :
          Applied("setMovable", << movable >>,
                  { WindowSetMovable(standalone, movable) })

SetAlwaysOnTopCall ==
    /\ standalone # NoObject
    /\ \E always_on_top \in BOOLEAN :
          Applied("setAlwaysOnTop", << always_on_top >>,
                  { WindowSetAlwaysOnTop(standalone, always_on_top) })

SetOpacityCall ==
    /\ standalone # NoObject
    /\ \E opacity \in OpacityInputs :
          Applied("setOpacity", << opacity >>,
                  { WindowSetOpacity(standalone, opacity) })

\* A host that uses EventUtils itself: getCurrentTimestamp, or one of the
\* create*Event functions, each of which draws one timestamp from the
\* counter the windows draw from.
HostTimestampCall ==
    /\ counter + 1 <= MaxWindowTimestamp
    /\ counter' = getCurrentTimestamp(counter)
    /\ delivered' = <<>>
    /\ last' = Call("EventUtils::getCurrentTimestamp", <<>>, counter')
    /\ UNCHANGED << windows_, next_window_id_, focused_window_id_,
                    event_callback_ >>

HostTimestamp == HostTimestampCall /\ Unobserved

\* the operations that write geometry_, state_ or visible_, with
\* setEventCallback and close
NextWindowCore ==
    \/ ConstructCall
    \/ HookCall
    \/ MoveCall
    \/ ResizeCall
    \/ MinimizeCall
    \/ MaximizeCall
    \/ RestoreCall
    \/ SetFullscreenCall
    \/ SetMinimumSizeCall
    \/ SetMaximumSizeCall
    \/ ShowCall
    \/ HideCall
    \/ CloseCall

SpecWindowCore == Init /\ [][NextWindowCore]_vars

\* every public operation of Window that writes a member, and the host's
\* own use of the timestamp counter
NextWindow ==
    \/ NextWindowCore
    \/ SetTitleCall
    \/ WindowSetFocusCall
    \/ WindowHandleEventCall
    \/ SetResizableCall
    \/ SetMovableCall
    \/ SetAlwaysOnTopCall
    \/ SetOpacityCall
    \/ HostTimestamp

SpecWindow == Init /\ [][NextWindow]_vars

\* the lifecycle calls alone: no move, resize, constraint change, show or hide
NextLifecycle ==
    \/ ConstructCall
    \/ HookCall
    \/ MinimizeCall
    \/ MaximizeCall
    \/ RestoreCall
    \/ SetFullscreenCall

SpecLifecycle == Init /\ [][NextLifecycle]_vars

\* every operation that writes state_ or visible_, on a Window of the host
\* and on the windows of a manager
RestoreStates == RestoreWindowStateOf(StateFiles) /\ Unobserved

NextStates ==
    \/ ConstructCall
    \/ MinimizeCall
    \/ MaximizeCall
    \/ RestoreCall
    \/ SetFullscreenCall
    \/ ShowCall
    \/ HideCall
    \/ CreateWindow
    \/ MinimizeWindow
    \/ MaximizeWindow
    \/ RestoreWindow
    \/ RestoreStates

SpecStates == Init /\ [][NextStates]_vars

\* Window::close() on a window of the collection. The manager hands out no
\* reference to its windows and calls close() nowhere itself; the call is
\* the one the description of close() speaks of (the owning manager
\* decides). What the window builds goes to the callback createWindow set
\* on it, that is to handleWindowEvent and from there to the sink; a window
\* loaded by restoreWindowState has no callback.
ManagedCloseCall ==
    \E id \in DOMAIN windows_ :
        Forwarded("Window::close", << id >>,
                  Forward(windows_, event_callback_, counter, id,
                          { WindowClose(windows_[id], id, counter) }))

ManagedClose == ManagedCloseCall /\ Unobserved

\* close() on windows of a manager (created or loaded, in any lifecycle
\* state the manager can put them in, with and without a sink) and on a
\* Window of the host, with closeWindow and the host's own use of the
\* timestamp counter
NextClose ==
    \/ CreateWindow
    \/ SetEventCallback
    \/ RestoreStates
    \/ MaximizeWindow
    \/ SetFocus
    \/ CloseWindow
    \/ ManagedClose
    \/ ConstructCall
    \/ HookCall
    \/ MaximizeCall
    \/ CloseCall
    \/ HostTimestamp

SpecClose == Init /\ [][NextClose]_vars

\* ---------------------------------------------------------------------------
\* Properties
\* ---------------------------------------------------------------------------
\* what the accessors of the manager and of a window return
getFocusedWindow == focused_window_id_
Live == DOMAIN windows_
HasFocus == { i \in DOMAIN windows_ : windows_[i].has_focus }

\* the types and windows of a sequence of deliveries, in order
Stream(ds) == [i \in 1..Len(ds) |-> << ds[i].event.type, ds[i].event.window_id >>]

\* the step is a call of op (the call is the value of last after the step)
Called(op) == last'.op = op

\* C1: after any sequence of manager operations getFocusedWindow() is -1 or
\* the identity of a window in the collection.
C1_FocusedIsLive ==
    getFocusedWindow = NoWindow \/ getFocusedWindow \in Live

\* C2: at most one live window has has_focus = true.
C2_AtMostOneHasFocus == Cardinality(HasFocus) <= 1

\* C3: the windows with has_focus = true are exactly the window named by
\* getFocusedWindow(), and none when it is -1.
C3_HasFocusIsFocused ==
    HasFocus = IF getFocusedWindow = NoWindow THEN {} ELSE {getFocusedWindow}

\* C4: a successful createWindow returns an identity greater than every
\* identity a window of this manager ever held (created, closed or restored).
C4_CreateReturnsFreshIdentity ==
    [][ (Called("createWindow") /\ last'.ret # NoWindow)
        => \A h \in ever_held : last'.ret > h ]_vars

\* C5: createWindow with an empty title or a width or height <= 0 returns
\* -1, delivers nothing, leaves the collection, the focus and the identity
\* counter as they were; a successful createWindow returns the counter's
\* value, so the failed call consumed no identity.
C5_InvalidCreateChangesNothing ==
    [][ Called("createWindow")
        => /\ (last'.args[1] = "" \/ last'.args[2] <= 0 \/ last'.args[3] <= 0)
              => /\ last'.ret = NoWindow
                 /\ delivered' = <<>>
                 /\ windows_' = windows_
                 /\ focused_window_id_' = focused_window_id_
                 /\ next_window_id_' = next_window_id_
           /\ last'.ret # NoWindow => last'.ret = next_window_id_ ]_vars

C5_Witness ==
    /\ last.op = "createWindow"
    /\ last.ret = NoWindow
    /\ event_callback_ # 0
    /\ getFocusedWindow \in Live

\* C6: a successful createWindow returning id leaves id in the collection
\* and focused, and the sink receives FocusLost for the previous holder (if
\* there was one), then FocusGained(id), then one Created(id).
C6_CreateDeliversFocusThenCreated ==
    [][ (Called("createWindow") /\ last'.ret # NoWindow /\ event_callback_ # 0)
        => LET id == last'.ret
           IN /\ id \in DOMAIN windows_'
              /\ focused_window_id_' = id
              /\ Stream(delivered') =
                     (IF focused_window_id_ \in Live
                      THEN << <<"FocusLost", focused_window_id_>> >>
                      ELSE <<>>)
                     \o << <<"FocusGained", id>>, <<"Created", id>> >> ]_vars

\* a call setFocus(id) with id live and not the focused identity, a sink
\* being registered
SetFocusToOther ==
    /\ Called("setFocus")
    /\ last'.args[1] \in Live
    /\ last'.args[1] # focused_window_id_
    /\ event_callback_ # 0

\* what such a call delivers: FocusLost for the holder, when the holder is a
\* window, immediately followed by FocusGained(id); the focus is id afterwards
SetFocusDelivers ==
    LET id == last'.args[1]
    IN /\ Stream(delivered') =
              (IF focused_window_id_ \in Live
               THEN << <<"FocusLost", focused_window_id_>> >>
               ELSE <<>>)
              \o << <<"FocusGained", id>> >>
       /\ focused_window_id_' = id

\* C7 as stated: setFocus(id), id live and not the holder p, delivers
\* FocusLost(p) then FocusGained(id) with nothing between, the focus is id
\* afterwards, and in the delivered stream FocusGained(id) is not seen while
\* a window that got FocusGained earlier has not got its FocusLost. Stated
\* for calls made while the focused identity is -1 or a live window.
C7_SetFocusOrderAndStream ==
    [][ (SetFocusToOther /\ (focused_window_id_ = NoWindow
                              \/ focused_window_id_ \in Live))
        => (SetFocusDelivers /\ pending' \subseteq {last'.args[1]}) ]_vars

\* C7 as amended: setFocus(id), id live and not the focused identity p,
\* delivers FocusLost(p) (exactly when p names a live window) immediately
\* followed by FocusGained(id) and nothing else, and the focus is id
\* afterwards.
C7_SetFocusOrder == [][ SetFocusToOther => SetFocusDelivers ]_vars

C7_Witness ==
    /\ last.op = "setFocus"
    /\ last.ret = TRUE
    /\ Len(delivered) = 2
    /\ delivered[1].event.type = "FocusLost"
    /\ delivered[2].event.type = "FocusGained"
    /\ getFocusedWindow = last.args[1]

\* C8: setFocus(id) with id not live returns failure, changes nothing and
\* delivers nothing, whatever the focus is; with id live and focused it
\* returns success, changes nothing and delivers nothing.
C8_SetFocusUnknownFails ==
    [][ Called("setFocus")
        => LET id == last'.args[1]
           IN /\ id \notin Live
                 => /\ last'.ret = FALSE
                    /\ focused_window_id_' = focused_window_id_
                    /\ delivered' = <<>>
              /\ (id \in Live /\ id = focused_window_id_)
                 => /\ last'.ret = TRUE
                    /\ focused_window_id_' = focused_window_id_
                    /\ windows_' = windows_
                    /\ delivered' = <<>> ]_vars

\* C9: when closeWindow(f) succeeds and f was focused, the focus afterwards
\* is a live window other than f for which FocusGained was delivered in the
\* call if a window remains, and -1 if none remains; the focus never names
\* the closed window on return.
C9_CloseFocusedFallsBack ==
    [][ (Called("closeWindow") /\ last'.ret = TRUE)
        => LET f == last'.args[1]
           IN /\ focused_window_id_' # f
              /\ focused_window_id_ = f
                 => IF DOMAIN windows_' # {}
                    THEN /\ focused_window_id_' \in DOMAIN windows_'
                         /\ event_callback_ # 0
                            => \E i \in 1..Len(delivered') :
                                   Stream(delivered')[i] =
                                       <<"FocusGained", focused_window_id_'>>
                    ELSE focused_window_id_' = NoWindow ]_vars

C9_Witness ==
    /\ last.op = "closeWindow"
    /\ last.ret = TRUE
    /\ event_callback_ # 0
    /\ getFocusedWindow \in Live
    /\ \E i \in 1..Len(delivered) :
           Stream(delivered)[i] = <<"FocusGained", getFocusedWindow>>

\* C10: closeWindow(id) on a live id delivers Closing(id) first, while id is
\* in the collection, and Destroyed(id) last, when id is no longer in it,
\* with FocusGained for the fallback window between them exactly when id
\* held the focus and another window remains; id is absent after the call.
C10_CloseDeliversClosingThenDestroyed ==
    [][ (Called("closeWindow") /\ last'.args[1] \in Live /\ event_callback_ # 0)
        => LET id == last'.args[1]
               n == Len(delivered')
           IN /\ last'.ret = TRUE
              /\ id \notin DOMAIN windows_'
              /\ n >= 2
              /\ Stream(delivered')[1] = <<"Closing", id>>
              /\ delivered'[1].live = TRUE
              /\ Stream(delivered')[n] = <<"Destroyed", id>>
              /\ delivered'[n].live = FALSE
              /\ IF focused_window_id_ = id /\ DOMAIN windows_' # {}
                 THEN /\ n = 3
                      /\ Stream(delivered')[2] =
                             <<"FocusGained", focused_window_id_'>>
                      /\ focused_window_id_' \in DOMAIN windows_'
                 ELSE n = 2 ]_vars

C10_Witness ==
    /\ last.op = "closeWindow"
    /\ last.ret = TRUE
    /\ Len(delivered) = 3
    /\ delivered[1].live = TRUE
    /\ delivered[2].event.type = "FocusGained"
    /\ delivered[3].live = FALSE

\* the identities closeWindow(id) can leave focused, one per window
\* windows_.begin() can be
FallbackChoices(id) ==
    { r.focused : r \in ImplCloseWindow(windows_, focused_window_id_,
                                        event_callback_, id) }

\* C11: the fallback focus chosen when the focused window is closed is
\* determined by the manager's history and by the windows that survive: a
\* manager in a given state has one fallback for closing its focused window.
C11_FallbackIsDetermined ==
    \A id \in Live :
        id = focused_window_id_ => Cardinality(FallbackChoices(id)) = 1

\* the forwarding operations, and what the Window operation each forwards
\* to can do on window w with the arguments of the call
Forwarding ==
    {"minimizeWindow", "maximizeWindow", "restoreWindow", "moveWindow",
     "resizeWindow"}

WindowOperation(op, w, args, ts) ==
    CASE op = "minimizeWindow" -> { WindowMinimize(w, args[1], ts) }
      [] op = "maximizeWindow" -> { WindowMaximize(w, args[1], ts) }
      [] op = "restoreWindow" -> WindowRestore(w, args[1], ts)
      [] op = "moveWindow" -> { WindowMove(w, args[1], args[2], args[3], ts) }
      [] op = "resizeWindow" -> WindowResize(w, args[1], args[2], args[3], ts)

\* C12: closeWindow and the five forwarding operations called with an id
\* that is not in the collection return false, deliver nothing and leave
\* the windows, the focus and the identity counter as they were; a
\* forwarding operation called with a live id returns what the Window
\* operation returns, leaves that window as the Window operation leaves it,
\* touches no other window and never changes the focus.
C12_UnknownIdFailsForwardVerbatim ==
    [][ (last'.op \in Forwarding \cup {"closeWindow"})
        => LET id == last'.args[1]
           IN /\ id \notin Live
                 => /\ last'.ret = FALSE
                    /\ delivered' = <<>>
                    /\ windows_' = windows_
                    /\ focused_window_id_' = focused_window_id_
                    /\ next_window_id_' = next_window_id_
              /\ (id \in Live /\ last'.op \in Forwarding)
                 => /\ focused_window_id_' = focused_window_id_
                    /\ DOMAIN windows_' = Live
                    /\ \A i \in Live \ {id} : windows_'[i] = windows_[i]
                    /\ \E r \in WindowOperation(last'.op, windows_[id],
                                                 last'.args, counter) :
                           /\ last'.ret = r.ret
                           /\ windows_'[id] = r.win ]_vars

\* a forwarded call on a live window that the Window operation rejected
C12_Witness ==
    /\ last.op = "resizeWindow"
    /\ last.args[1] \in Live
    /\ last.ret = FALSE
    /\ Cardinality(Live) = 2

\* every Window object there is: those of the manager and the standalone one
AllWindows ==
    { windows_[i] : i \in Live }
    \cup (IF standalone = NoObject THEN {} ELSE {standalone})

\* every field of geometry g is determined and the size is within the
\* constraints
WithinConstraints(g) ==
    /\ Determined(g)
    /\ g.min_width <= g.width /\ g.width <= g.max_width
    /\ g.min_height <= g.height /\ g.height <= g.max_height

\* C13: after each call of resize, setMinimumSize or setMaximumSize on a
\* window, accepted or rejected, min_width <= width <= max_width and
\* min_height <= height <= max_height hold; stated for the calls made on a
\* window for which they held before the call.
C13_SizeCallsKeepConstraints ==
    [][ (last'.op \in {"resize", "setMinimumSize", "setMaximumSize"}
         /\ WithinConstraints(standalone.geometry))
        => WithinConstraints(standalone'.geometry) ]_vars

\* C14: in every state of every window, from construction on and after
\* every mutation, width and height are strictly positive and within
\* [min_width, max_width] and [min_height, max_height].
C14_GeometryPositiveWithinConstraints ==
    \A w \in AllWindows :
        /\ WithinConstraints(w.geometry)
        /\ w.geometry.width > 0
        /\ w.geometry.height > 0

\* C16: minimize(); maximize(); restore() called in a row on a window in
\* state Normal with geometry g leave it in state Normal with geometry g.
C16_MinimizeMaximizeRestoreReturns ==
    trail.ops = << "minimize", "maximize", "restore" >>
    => /\ standalone.state = WS_Normal
       /\ standalone.geometry = trail.g

\* the events of a sequence of deliveries, in order
Events(ds) == [i \in 1..Len(ds) |-> ds[i].event]

\* window w with a callback set on it: what it builds is what it hands over
Hooked(w) == [w EXCEPT !.hooked = TRUE]

\* C15: resizeWindow(id, width, height) on a live window, a sink being
\* registered: with width outside [min_width, max_width] or height outside
\* [min_height, max_height] it returns false, leaves the geometry as it was
\* and delivers nothing; otherwise it returns true, sets width and height,
\* leaves x, y and the constraints as they were and delivers one Resized
\* event carrying the new and the old dimensions. Stated for the calls on a
\* window every field of whose geometry is determined.
C15_ResizeRejectsOrResizes ==
    [][ (/\ Called("resizeWindow") /\ last'.args[1] \in Live
         /\ event_callback_ # 0
         /\ Determined(windows_[last'.args[1]].geometry))
        => LET id == last'.args[1]
               width == last'.args[2]
               height == last'.args[3]
               g == windows_[id].geometry
           IN IF width < g.min_width \/ width > g.max_width
                 \/ height < g.min_height \/ height > g.max_height
              THEN /\ last'.ret = FALSE
                   /\ windows_' = windows_
                   /\ delivered' = <<>>
              ELSE /\ last'.ret = TRUE
                   /\ windows_'[id].geometry =
                          [g EXCEPT !.width = width, !.height = height]
                   /\ Len(delivered') = 1
                   /\ delivered'[1].event.type = "Resized"
                   /\ delivered'[1].event.window_id = id
                   /\ delivered'[1].event.window =
                          [ZeroWindowPayload EXCEPT
                              !.width = width, !.height = height,
                              !.old_width = g.width, !.old_height = g.height]
      ]_vars

\* C19: with a sink registered, the events a live window builds in a call
\* forwarded to it (whenever the window was created, or loaded by
\* restoreWindowState) reach the sink once each and in order, and whatever
\* any call delivers goes to the sink registered at the time of the call.
C19_EveryEventReachesTheSink ==
    [][ /\ \A i \in 1..Len(delivered') : delivered'[i].sink = event_callback_
        /\ (last'.op \in Forwarding /\ last'.args[1] \in Live
            /\ event_callback_ # 0)
           => \E r \in WindowOperation(last'.op, Hooked(windows_[last'.args[1]]),
                                        last'.args, counter) :
                  /\ Hooked(windows_'[last'.args[1]]) = r.win
                  /\ Events(delivered') = r.ev ]_vars

\* C20: handleEvent(e) with e.window_id not live changes nothing and
\* delivers nothing; with e.window_id = w live, w.has_focus becomes true for
\* FocusGained, false for FocusLost and stays for another type, nothing else
\* of w, no other window, and neither the collection nor the focused
\* identity changes, and the sink, if one is registered, receives e once.
C20_HandleEventRoutesToWindow ==
    [][ Called("handleEvent")
        => LET type == last'.args[1]
               id == last'.args[2]
           IN /\ focused_window_id_' = focused_window_id_
              /\ next_window_id_' = next_window_id_
              /\ IF id \notin Live
                 THEN windows_' = windows_ /\ delivered' = <<>>
                 ELSE /\ windows_' =
                            [windows_ EXCEPT ![id].has_focus =
                                CASE type = "FocusGained" -> TRUE
                                  [] type = "FocusLost" -> FALSE
                                  [] OTHER -> @]
                      /\ event_callback_ # 0
                         => Events(delivered') = << MkEvent(type, id) >> ]_vars

\* what the layout document records of the manager: the focused identity
\* and, per identity, title, x, y, width, height and lifecycle state
Layout(wins, focused) ==
    [focused |-> focused,
     windows |-> [i \in DOMAIN wins |-> SavedRecord(i, wins[i])]]

\* C17: restoreWindowState of the document saveWindowState wrote for the
\* manager as it is succeeds and yields a manager with the same live
\* identities, for each identity the same title, x, y, width, height and
\* lifecycle state, and the same focused identity.
C17_SaveRestoreRoundTrip ==
    [][ (/\ Called("restoreWindowState")
         /\ last'.args[1].kind = "object"
         /\ last'.args[1].root \in SavedDocuments(windows_, focused_window_id_))
        => /\ last'.ret = TRUE
           /\ Layout(windows_', focused_window_id_') =
                  Layout(windows_, focused_window_id_) ]_vars

\* C18: when restoreWindowState returns failure, the window collection, the
\* focused identity and the identity counter are what they were before the
\* call.
C18_FailedRestoreChangesNothing ==
    [][ (Called("restoreWindowState") /\ last'.ret = FALSE)
        => /\ windows_' = windows_
           /\ focused_window_id_' = focused_window_id_
           /\ next_window_id_' = next_window_id_ ]_vars

\* the call op(args) finds the window w already in the state it asks for
InTargetState(op, args, w) ==
    \/ op = "minimize" /\ w.state = WS_Minimized
    \/ op = "maximize" /\ w.state = WS_Maximized
    \/ op = "restore" /\ w.state = WS_Normal
    \/ op = "setFullscreen" /\ args[1] /\ w.state = WS_Fullscreen
    \/ op = "setFullscreen" /\ ~args[1] /\ w.state # WS_Fullscreen
    \/ op = "show" /\ w.visible
    \/ op = "hide" /\ ~w.visible

\* C21: minimize() on a Minimized window, maximize() on a Maximized one,
\* restore() on a Normal one, setFullscreen(true) on a Fullscreen one,
\* setFullscreen(false) on a non-Fullscreen one, show() on a visible one and
\* hide() on an invisible one return true, change no field of the window,
\* deliver no event and draw no timestamp.
C21_TargetStateCallsAreNoOps ==
    [][(standalone # NoObject /\ InTargetState(last'.op, last'.args, standalone))
       => /\ last'.ret = TRUE
          /\ standalone' = standalone
          /\ delivered' = <<>>
          /\ counter' = counter]_vars

\* hide() was called on a window that has a callback and was already
\* invisible after state changes: a hide() that had hidden it would have
\* handed an event to the callback
C21_Witness ==
    /\ standalone # NoObject
    /\ standalone.hooked
    /\ last.op = "hide"
    /\ ~standalone.visible
    /\ standalone.state = WS_Maximized
    /\ delivered = <<>>

\* C22: with a sink registered, a minimizeWindow, maximizeWindow or
\* restoreWindow call that changes the lifecycle state of a live window
\* delivers exactly one StateChanged event for that window, whose scalar
\* payload is the ordinal of the state before the call.
C22_StateChangeDeliversOldState ==
    [][ (/\ last'.op \in {"minimizeWindow", "maximizeWindow", "restoreWindow"}
         /\ last'.args[1] \in Live
         /\ event_callback_ # 0
         /\ windows_'[last'.args[1]].state # windows_[last'.args[1]].state)
        => /\ Len(delivered') = 1
           /\ delivered'[1].event.type = "StateChanged"
           /\ delivered'[1].event.window_id = last'.args[1]
           /\ delivered'[1].event.int_value = windows_[last'.args[1]].state
      ]_vars

\* C23: a window that left state Normal with geometry g by maximize() and
\* came back by restore(), or left by setFullscreen(true) and came back by
\* setFullscreen(false) or restore(), with nothing but move and resize
\* called in between, is in state Normal with geometry g.
C23_RoundTripRestoresGeometry ==
    (/\ standalone # NoObject
     /\ origin.via \in {"maximize", "setFullscreen"}
     /\ origin.back \in {"restore", "setFullscreen"}
     /\ origin.pure)
    => /\ standalone.state = WS_Normal
       /\ standalone.geometry = origin.g

\* setFullscreen(true), a move or resize that changed the geometry while
\* the window was Fullscreen, then restore()
C23_Witness ==
    /\ standalone # NoObject
    /\ origin.via = "setFullscreen"
    /\ origin.back = "restore"
    /\ origin.pure
    /\ origin.moved
    /\ last.op = "restore"

\* C24: restore() on a window in a state other than Normal returns true and
\* leaves the state Normal and visible true; leaving Maximized or Fullscreen
\* the geometry becomes what normal_geometry holds, leaving Minimized the
\* geometry stays; no other field changes.
C24_RestoreLeavesNormalVisible ==
    [][ (Called("restore") /\ standalone # NoObject
         /\ standalone.state # WS_Normal)
        => /\ last'.ret = TRUE
           /\ standalone'.state = WS_Normal
           /\ standalone'.visible = TRUE
           /\ standalone.state \in {WS_Maximized, WS_Fullscreen}
              => standalone'.geometry \in ReadNormalGeometry(standalone)
           /\ standalone.state \notin {WS_Maximized, WS_Fullscreen}
              => standalone'.geometry = standalone.geometry
           /\ standalone' = [standalone EXCEPT !.state = WS_Normal,
                                               !.visible = TRUE,
                                               !.geometry = standalone'.geometry]
      ]_vars

\* restore() brought back a Minimized window that has a callback, after an
\* earlier maximize()/restore() had put another geometry into
\* normal_geometry
C24_Witness ==
    /\ standalone # NoObject
    /\ standalone.hooked
    /\ last.op = "restore"
    /\ Len(delivered) = 1
    /\ delivered[1].event.int_value = WS_Minimized
    /\ standalone.state = WS_Normal
    /\ standalone.visible
    /\ standalone.normal_geometry # Uninit

\* C25: Window::close() changes no field of the window and nothing in the
\* owning manager: called on a window of a manager's collection it returns
\* true, leaves the collection (the window included, with its state,
\* geometry and focus), the focused identity, the identity counter and the
\* sink as they were, and delivers exactly one CloseRequest event for the
\* window to the sink when one is registered; the window is still in the
\* collection afterwards. Called on a Window the host holds it returns
\* true, changes no field and hands exactly one CloseRequest event to the
\* callback set on the window.
C25_CloseChangesNothing ==
    [][ /\ (Called("Window::close") /\ last'.args[1] \in Live)
           => LET id == last'.args[1]
              IN /\ last'.ret = TRUE
                 /\ windows_' = windows_
                 /\ id \in DOMAIN windows_'
                 /\ UNCHANGED << next_window_id_, focused_window_id_,
                                 event_callback_, standalone >>
                 /\ event_callback_ # 0
                    => /\ Events(delivered') =
                              << StampedEvent("CloseRequest", id, counter) >>
                       /\ delivered'[1].sink = event_callback_
                 /\ event_callback_ = 0 => delivered' = <<>>
        /\ (Called("close") /\ standalone # NoObject)
           => /\ last'.ret = TRUE
              /\ standalone' = standalone
              /\ UNCHANGED << windows_, next_window_id_, focused_window_id_,
                              event_callback_ >>
              /\ standalone.hooked
                 => /\ Len(delivered') = 1
                    /\ delivered'[1].event =
                           StampedEvent("CloseRequest", StandaloneId, counter)
              /\ ~standalone.hooked => delivered' = <<>>
      ]_vars

\* a geometry whose position and size are determined and are the extent
\* maximize() and setFullscreen(true) write
IsScreenExtent(g) ==
    /\ {"x", "y", "width", "height"} \subseteq DOMAIN g
    /\ g.width = ScreenWidth /\ g.height = ScreenHeight /\ g.x = 0 /\ g.y = 0

\* C26: under minimize, maximize, restore and setFullscreen calls alone, a
\* window that left state Normal and is in state Normal again has the
\* geometry it had when it left; a Maximized or Fullscreen window, whose
\* normal_geometry the next restore() reads, has had it written; and
\* normal_geometry never holds the maximized/fullscreen extent.
C26_NormalGeometryIsTheLastNormalOne ==
    standalone # NoObject
    => /\ (standalone.state = WS_Normal /\ origin.back # "")
          => standalone.geometry = origin.g
       /\ standalone.state \in {WS_Maximized, WS_Fullscreen}
          => standalone.normal_geometry # Uninit
       /\ standalone.normal_geometry # Uninit
          => ~IsScreenExtent(standalone.normal_geometry)

\* C28: under minimize, maximize, restore and setFullscreen calls alone,
\* visible is false exactly when the state is Minimized.
C28_InvisibleIffMinimized ==
    standalone # NoObject
    => (standalone.visible = FALSE <=> standalone.state = WS_Minimized)

\* what a listener that follows FocusGained/FocusLost takes for the focus
\* agrees with the focused identity
ListenerAgrees(p, focused) ==
    p = IF focused = NoWindow THEN {} ELSE {focused}

\* C27: with a sink registered and a listener that agreed with
\* getFocusedWindow() before the call, during createWindow, setFocus and
\* closeWindow no window receives FocusGained while another one is still
\* left with its FocusGained, no window receives Destroyed while left with
\* its FocusGained, and the listener agrees with getFocusedWindow() after
\* the call.
C27_FocusStreamIsCoherent ==
    [][ (/\ last'.op \in {"createWindow", "setFocus", "closeWindow"}
         /\ event_callback_ # 0
         /\ ListenerAgrees(pending, focused_window_id_))
        => /\ \A i \in 1..Len(delivered') :
                 LET e == delivered'[i].event
                     before == TrackFocus(pending, SubSeq(delivered', 1, i - 1))
                 IN /\ e.type = "FocusGained" => before \subseteq {e.window_id}
                    /\ e.type = "Destroyed" => e.window_id \notin before
           /\ ListenerAgrees(pending', focused_window_id_')
      ]_vars

\* C29: every event a call delivers to the sink carries a timestamp drawn
\* from the counter (at least 1), greater than the timestamp of every event
\* delivered before it in the same call and in the call before.
C29_TimestampsStrictlyIncrease ==
    [][ \A i \in 1..Len(delivered') :
           LET t == delivered'[i].event.timestamp
           IN /\ t >= 1
              /\ \A j \in 1..(i - 1) : delivered'[j].event.timestamp < t
              /\ \A k \in 1..Len(delivered) : delivered[k].event.timestamp < t
      ]_vars

\* C30: no window, in a manager's collection or held by the host, is in
\* the lifecycle state Hidden: hide() writes visible only, and
\* restoreWindowState of a record whose state is 4 leaves the window Normal.
C30_NoWindowIsHidden ==
    \A w \in AllWindows :
        w.state \in {WS_Normal, WS_Minimized, WS_Maximized, WS_Fullscreen}

\* hide() has hidden the host's window (the only call that spends one
\* timestamp and leaves a Normal window invisible), and restoreWindowState
\* has then loaded a record with state 4
C30_Witness ==
    /\ standalone # NoObject
    /\ standalone.state = WS_Normal
    /\ ~standalone.visible
    /\ counter = 2
    /\ last.op = "restoreWindowState"
    /\ last.ret = TRUE
    /\ last.args[1].root.windows[1].state = WS_Hidden
    /\ 2 \in DOMAIN windows_
    /\ windows_[2].state = WS_Normal

====
